---------------------------- MODULE Spec2Model ----------------------------
(***************************************************************************)
(* A model of the LinkedIn referral assistant:                             *)
(*   - the message classifier is_referral_request (linkedin_messages.py),  *)
(*   - the resume acquisition of extract_message_content                   *)
(*     (linkedin_messages.py), with its two download collaborators,        *)
(*   - the matching of a resume file to a conversation in                  *)
(*     process_linkedin_messages (analyze_referrals.py).                   *)
(* Texts are TLA+ strings; a character is a string of length one.          *)
(***************************************************************************)
EXTENDS Naturals, Sequences, FiniteSets, TLC

(***************************************************************************)
(* Python string operations, computed character by character.              *)
(***************************************************************************)

\* s[i] of Python, 1-based.
Char(s, i) == SubSeq(s, i, i)

UpperLetters ==
    {"A", "B", "C", "D", "E", "F", "G", "H", "I", "J", "K", "L", "M",
     "N", "O", "P", "Q", "R", "S", "T", "U", "V", "W", "X", "Y", "Z"}

LowerLetters ==
    {"a", "b", "c", "d", "e", "f", "g", "h", "i", "j", "k", "l", "m",
     "n", "o", "p", "q", "r", "s", "t", "u", "v", "w", "x", "y", "z"}

Digits == {"0", "1", "2", "3", "4", "5", "6", "7", "8", "9"}

\* The characters \s matches.
Whitespace == {" ", "\t", "\n", "\r"}

LowerTable ==
    "A" :> "a" @@ "B" :> "b" @@ "C" :> "c" @@ "D" :> "d" @@ "E" :> "e" @@
    "F" :> "f" @@ "G" :> "g" @@ "H" :> "h" @@ "I" :> "i" @@ "J" :> "j" @@
    "K" :> "k" @@ "L" :> "l" @@ "M" :> "m" @@ "N" :> "n" @@ "O" :> "o" @@
    "P" :> "p" @@ "Q" :> "q" @@ "R" :> "r" @@ "S" :> "s" @@ "T" :> "t" @@
    "U" :> "u" @@ "V" :> "v" @@ "W" :> "w" @@ "X" :> "x" @@ "Y" :> "y" @@
    "Z" :> "z"

LowerChar(c) == IF c \in UpperLetters THEN LowerTable[c] ELSE c

\* str.lower()
RECURSIVE LowerFrom(_, _)
LowerFrom(s, i) ==
    IF i > Len(s) THEN "" ELSE LowerChar(Char(s, i)) \o LowerFrom(s, i + 1)

Lower(s) == LowerFrom(s, 1)

\* s.startswith(p, i - 1): p occurs in s at position i.
OccursAt(s, p, i) == i >= 1 /\ i + Len(p) - 1 <= Len(s) /\ SubSeq(s, i, i + Len(p) - 1) = p

\* p in s
Contains(s, p) == \E i \in 1..(Len(s) + 1) : OccursAt(s, p, i)

\* s.endswith(p)
EndsWith(s, p) == Len(p) <= Len(s) /\ OccursAt(s, p, Len(s) - Len(p) + 1)

\* s.find(p) + 1: the first position of p in s, 0 when there is none.
Find(s, p) ==
    IF Contains(s, p)
    THEN CHOOSE i \in 1..(Len(s) + 1) :
             OccursAt(s, p, i) /\ \A j \in 1..(i - 1) : ~OccursAt(s, p, j)
    ELSE 0

\* s.replace(a, b) for single characters a and b.
RECURSIVE ReplaceFrom(_, _, _, _)
ReplaceFrom(s, a, b, i) ==
    IF i > Len(s) THEN ""
    ELSE (IF Char(s, i) = a THEN b ELSE Char(s, i)) \o ReplaceFrom(s, a, b, i + 1)

Replace(s, a, b) == ReplaceFrom(s, a, b, 1)

\* The first position >= i of s that holds no whitespace (Len(s) + 1 when
\* there is none): where a greedy \s* started at i ends.
RECURSIVE SkipWs(_, _)
SkipWs(s, i) ==
    IF i <= Len(s) /\ Char(s, i) \in Whitespace THEN SkipWs(s, i + 1) ELSE i

\* The first position >= i of s that holds whitespace (Len(s) + 1 when there
\* is none): where a greedy \S* started at i ends.
RECURSIVE SkipNonWs(_, _)
SkipNonWs(s, i) ==
    IF i <= Len(s) /\ Char(s, i) \notin Whitespace THEN SkipNonWs(s, i + 1) ELSE i

\* s.split(): the whitespace-separated tokens of s, in order.
RECURSIVE SplitFrom(_, _)
SplitFrom(s, i) ==
    LET b == SkipWs(s, i)
        e == SkipNonWs(s, b)
    IN  IF b > Len(s) THEN << >> ELSE << SubSeq(s, b, e - 1) >> \o SplitFrom(s, e)

Split(s) == SplitFrom(s, 1)

DigitStr == << "0", "1", "2", "3", "4", "5", "6", "7", "8", "9" >>

\* str(n) for a natural number n.
RECURSIVE Str(_)
Str(n) == IF n < 10 THEN DigitStr[n + 1] ELSE Str(n \div 10) \o DigitStr[(n % 10) + 1]

\* The elements of a sequence, as a set.
Range(q) == { q[i] : i \in DOMAIN q }

(***************************************************************************)
(* The message classifier.                                                 *)
(***************************************************************************)

referral_keywords ==
    << "referral", "refer me", "referring", "job application", "applying", "opportunity",
       "position", "role", "job posting", "job opening", "recommend me", "recommendation",
       "looking for a job", "job search", "openings", "hiring", "job opportunity",
       "internal referral", "company referral", "forwarding my resume", "forwarding my cv",
       "attached resume", "attached cv", "resume attached", "cv attached", "apply for",
       "job id", "job reference", "refer", "would appreciate a referral", "requesting a referral",
       "kindly refer", "please refer", "seeking a referral", "job referral", "application process",
       "help with referral", "refer my profile", "refer my application", "refer my resume",
       "LinkedIn job", "request you to refer", "job consideration", "open position", "open role",
       "open requisition", "req id", "requisition" >>

\* re.IGNORECASE: [a-z] matches a letter of either case.
IsLetterIgnoreCase(c) == LowerChar(c) \in LowerLetters

\* Whether p occurs in s at i, ignoring case (p is lower case).
OccursAtIgnoreCase(s, p, i) ==
    i >= 1 /\ i + Len(p) - 1 <= Len(s) /\ Lower(SubSeq(s, i, i + Len(p) - 1)) = p

\* job\s*id\s*[:#]?\s*([a-z]\d+) matches s from position i (re.IGNORECASE).
\* Every quantified part is followed by a character it cannot match, so the
\* greedy match is the only one.
JobIdPatternAt(s, i) ==
    LET b == SkipWs(s, i + 3)
        d == SkipWs(s, b + 2)
        e == IF d <= Len(s) /\ Char(s, d) \in {":", "#"} THEN d + 1 ELSE d
        f == SkipWs(s, e)
    IN  /\ OccursAtIgnoreCase(s, "job", i)
        /\ OccursAtIgnoreCase(s, "id", b)
        /\ f + 1 <= Len(s)
        /\ IsLetterIgnoreCase(Char(s, f))
        /\ Char(s, f + 1) \in Digits

\* re.search(job_id_pattern, s)
JobIdPatternSearch(s) == \E i \in 1..Len(s) : JobIdPatternAt(s, i)

\* KeywordHit with message_lower.startswith(keyword) for keyword in
\* message_lower.
KeywordAtStart(message_lower) ==
    \E k \in DOMAIN referral_keywords : OccursAt(message_lower, referral_keywords[k], 1)

\* The keyword loop of is_referral_request: keyword in message_lower.
KeywordHit(message_lower) ==
    \E k \in DOMAIN referral_keywords : Contains(message_lower, referral_keywords[k])

is_referral_request(message_content) ==
    IF message_content = "" THEN FALSE
    ELSE LET message_lower == Lower(message_content)
         IN  IF JobIdPatternSearch(message_lower) THEN TRUE
             ELSE KeywordHit(message_lower)

(***************************************************************************)
(* The page of one opened conversation, as extract_message_content reads   *)
(* it: the message events in order, each with an optional body text and    *)
(* its attachment elements.  The pages of the model are drawn from every   *)
(* stream of at most MaxElems page elements (a text piece, an attachment,  *)
(* a break between two events).                                            *)
(***************************************************************************)

MaxElems == 4

DriveUrlA == "https://drive.google.com/file/d/a"
DriveUrlB == "https://drive.google.com/open?id=b"

\* The text pieces a body is made of (joined by single spaces).
BodyPieces == {"please refer me", DriveUrlA, DriveUrlB}

\* The download attribute of the attachment links of the model.
AttachmentNames == {"My CV.docx", "photo.png"}

\* A page element: a text piece of a body, an attachment (text is its
\* download attribute), or the break between two events.
PageElems ==
    { [kind |-> "text", text |-> p] : p \in BodyPieces }
    \cup { [kind |-> "attachment", text |-> a] : a \in AttachmentNames }
    \cup { [kind |-> "break", text |-> ""] }

PageStreams == UNION { [1..n -> PageElems] : n \in 0..MaxElems }

EmptyItem == [has_body |-> FALSE, body |-> "", attachments |-> << >>]

\* One more element, the n-th of the stream, read into the events read so
\* far (the last event is the open one).  An attachment element is the href
\* of its a[href*="/dms/"] link ("" when it has none), which no two
\* attachments share, and that link's download attribute ("" when absent).
AddElem(items, e, n) ==
    LET last == items[Len(items)]
    IN  CASE e.kind = "break" -> Append(items, EmptyItem)
          [] e.kind = "text" ->
                [items EXCEPT ![Len(items)] =
                    [last EXCEPT !.has_body = TRUE,
                                 !.body = IF last.has_body THEN last.body \o " " \o e.text
                                          ELSE e.text]]
          [] OTHER ->
                [items EXCEPT ![Len(items)] =
                    [last EXCEPT !.attachments =
                        Append(@, [href |-> "/dms/" \o Str(n), download |-> e.text])]]

RECURSIVE ItemsOf(_, _)
ItemsOf(stream, n) ==
    IF n = 0 THEN << EmptyItem >> ELSE AddElem(ItemsOf(stream, n - 1), stream[n], n)

\* page.query_selector_all('.msg-s-message-list__event')
Pages == { ItemsOf(st, Len(st)) : st \in PageStreams }

(***************************************************************************)
(* extract_message_content: helpers.                                       *)
(***************************************************************************)

RESUMES_DIR == "resumes"

\* os.path.join(destination_folder, filename)
PathJoin(folder, filename) == folder \o "/" \o filename

DriveLinkPrefix == "https://drive.google.com/"

\* re.findall(r'(https://drive\.google\.com/\S+)', s), scanning from i.
RECURSIVE FindDriveLinksFrom(_, _)
FindDriveLinksFrom(s, i) ==
    IF i > Len(s) THEN << >>
    ELSE LET after == i + Len(DriveLinkPrefix)
             e == SkipNonWs(s, after)
         IN  IF OccursAt(s, DriveLinkPrefix, i) /\ e > after
             THEN << SubSeq(s, i, e - 1) >> \o FindDriveLinksFrom(s, e)
             ELSE FindDriveLinksFrom(s, i + 1)

FindDriveLinks(s) == FindDriveLinksFrom(s, 1)

\* The first pass over the events: all_message_content.
RECURSIVE AllMessageContent(_, _)
AllMessageContent(items, n) ==
    IF n = 0 THEN ""
    ELSE AllMessageContent(items, n - 1)
         \o (IF items[n].has_body THEN items[n].body \o " " ELSE "")

\* The first pass over the events: drive_links.
RECURSIVE CollectDriveLinks(_, _)
CollectDriveLinks(items, n) ==
    IF n = 0 THEN << >>
    ELSE CollectDriveLinks(items, n - 1)
         \o (IF items[n].has_body THEN FindDriveLinks(items[n].body) ELSE << >>)

NoName == ""

\* [A-Z][a-z]+ from position i of s: the position after it, 0 when there is
\* no match.
RECURSIVE SkipLower(_, _)
SkipLower(s, i) ==
    IF i <= Len(s) /\ Char(s, i) \in LowerLetters THEN SkipLower(s, i + 1) ELSE i

NameWordEnd(s, i) ==
    IF i + 1 <= Len(s) /\ Char(s, i) \in UpperLetters /\ Char(s, i + 1) \in LowerLetters
    THEN SkipLower(s, i + 1)
    ELSE 0

\* [A-Z][a-z]+(?: [A-Z][a-z]+)* from position i of s, greedy: the position
\* after it, 0 when there is no match.
RECURSIVE NameEnd(_, _)
NameEnd(s, i) ==
    LET e == NameWordEnd(s, i)
    IN  IF e = 0 THEN 0
        ELSE IF e <= Len(s) /\ Char(s, e) = " " /\ NameWordEnd(s, e + 1) # 0
             THEN NameEnd(s, e + 1)
             ELSE e

\* What the signature search may leave in actual_name.  All four
\* signature_patterns capture [A-Z][a-z]+(?: [A-Z][a-z]+)* at some position
\* of the text; which position depends on the closing phrases around it,
\* which the model leaves open: any such capture, or none.
SignatureNames(s) ==
    {NoName} \cup { SubSeq(s, i, NameEnd(s, i) - 1) : i \in { j \in 1..Len(s) : NameEnd(s, j) # 0 } }

resume_keywords == << "resume", "cv", "curriculum", "vitae" >>

is_likely_resume(attachment_name) ==
    \E k \in DOMAIN resume_keywords : Contains(Lower(attachment_name), resume_keywords[k])

\* attachment_name = download_link.get_attribute('download') or "resume.pdf"
AttachmentName(att) == IF att.download = "" THEN "resume.pdf" ELSE att.download

\* The attachment is downloaded: it has a /dms/ link and is a PDF or looks
\* like a resume.
EligibleAttachment(att) ==
    /\ att.href # ""
    /\ \/ is_likely_resume(AttachmentName(att))
       \/ EndsWith(Lower(AttachmentName(att)), ".pdf")

\* clean_filename of the drive link with index i (0-based, as enumerate).
DriveFilename(sender, i) ==
    IF i > 0 THEN sender \o "_resume_" \o Str(i + 1) \o ".pdf"
    ELSE sender \o "_resume.pdf"

\* clean_filename of an attachment.
AttachmentFilename(sender) ==
    LET clean_filename == sender \o "_resume.pdf"
    IN  IF ~EndsWith(Lower(clean_filename), ".pdf") THEN clean_filename \o ".pdf"
        ELSE clean_filename

(***************************************************************************)
(* The download collaborators.  What the network answers is not the        *)
(* program's choice: each call ends in one of the outcomes below.          *)
(***************************************************************************)

\* re.search(r'\/file\/d\/([^\/]+)', drive_link)
HasFileDId(drive_link) ==
    LET at == Find(drive_link, "/file/d/")
    IN  at # 0 /\ at + 8 <= Len(drive_link) /\ Char(drive_link, at + 8) # "/"

\* 'id' in urllib.parse.parse_qs(urlparse(drive_link).query)
HasIdParam(drive_link) ==
    LET q == Find(drive_link, "?")
    IN  /\ q # 0
        /\ \E i \in q..Len(drive_link) :
              /\ Char(drive_link, i) \in {"?", "&"}
              /\ OccursAt(drive_link, "id=", i + 1)
              /\ i + 4 <= Len(drive_link)
              /\ Char(drive_link, i + 4) \notin {"&", "#"}

\* An outcome of a download call: the result dictionary it returns and
\* whether it opened the destination file for writing (open(file_path, 'wb')
\* creates or truncates the file, also when a later chunk raises).
Outcome(success, error, wrote) == [success |-> success, error |-> error, wrote |-> wrote]

\* download_from_google_drive(drive_link, destination_folder, filename)
download_from_google_drive(drive_link) ==
    IF ~HasFileDId(drive_link) /\ ~HasIdParam(drive_link)
    THEN { Outcome(FALSE, "Invalid Google Drive link format", FALSE) }
    ELSE { Outcome(TRUE, "", TRUE),
           Outcome(FALSE, "ConnectionError", FALSE),
           Outcome(FALSE, "ChunkedEncodingError", TRUE) }

\* download_file(url, browser_context, destination_folder, filename)
download_file(url) ==
    { Outcome(TRUE, "", TRUE),
      Outcome(FALSE, "HTTP status code: 403", FALSE),
      Outcome(FALSE, "ChunkedEncodingError", TRUE) }

(***************************************************************************)
(* State.                                                                  *)
(***************************************************************************)

VARIABLES
    \* extract_message_content
    message_items,          \* the events of the opened conversation
    display_name,           \* conversation_info['sender']
    pc,                     \* where the function is
    all_message_content,
    drive_links,
    actual_name,
    sender_name,
    is_potential_referral,
    resume_downloaded,
    attachments_processed,
    i,                      \* index of the drive-link loop (0-based)
    item_index,             \* index of the event loop (0-based)
    att_index,              \* index of the attachment loop (0-based)
    message_attachments,
    downloaded_attachments,
    full_messages,
    result,                 \* the dictionary returned
    resumes,                \* RESUMES_DIR: path -> times opened for writing
    calls,                  \* the download calls made, in order
    \* is_referral_request, applied to a text and to a text that contains it
    cpc,
    text,
    wider_text,
    text_is_referral,
    wider_is_referral,
    \* process_linkedin_messages: the matching of one resume file
    rpc,
    messages_data,
    message_content_by_sender,
    file_basename,
    file_sender_name,       \* sender_name, as derived from the file name
    matched_key,
    message_content,
    \* analyze_resume_with_gpt: one call, and the row it returns
    apc,
    arg_sender_name,        \* the argument sender_name
    arg_message_content,    \* the argument message_content
    resume_response,        \* what the resume call of the service ends in
    job_id_response,        \* what the job-id call of the service ends in
    resume_content,         \* the text of the resume response, "" when not followed
    job_id_content,         \* the text of the job-id response, "" when not followed
    analysis,               \* the row returned
    renormalized,           \* the row after one more pass of lines 437-441
    \* main: one run of the assistant
    mpc,
    unread_conversations,   \* the page of each unread conversation, in order
    convo_index,            \* index of the conversation loop (0-based)
    unread_messages,
    referral_requests,
    resumes_found,
    no_resume_listed,       \* the senders listed by lines 183-185
    resume_files,           \* the files of the glob not yet analysed
    analyses,
    steps                   \* the records handled, stage by stage, in order

acqVars ==
    << message_items, display_name, pc, all_message_content, drive_links, actual_name,
       sender_name, is_potential_referral, resume_downloaded, attachments_processed,
       i, item_index, att_index, message_attachments, downloaded_attachments,
       full_messages, result, resumes, calls >>

clsVars == << cpc, text, wider_text, text_is_referral, wider_is_referral >>

resVars ==
    << rpc, messages_data, message_content_by_sender, file_basename, file_sender_name,
       matched_key, message_content >>

anVars ==
    << apc, arg_sender_name, arg_message_content, resume_response, job_id_response,
       resume_content, job_id_content, analysis, renormalized >>

runVars ==
    << mpc, unread_conversations, convo_index, unread_messages, referral_requests,
       resumes_found, no_resume_listed, resume_files, analyses, steps >>

vars == << acqVars, clsVars, resVars, anVars, runVars >>

NoResult == [sender |-> ""]

\* A function with one more key, or the key's value replaced (d[k] = v).
Put(d, k, v) == [x \in DOMAIN d \cup {k} |-> IF x = k THEN v ELSE d[x]]

EmptyDict == [x \in {} |-> ""]

\* The state when extract_message_content is entered.
AcqInit ==
    /\ message_items \in Pages
    /\ display_name = "John Smith"
    /\ pc = "analyze"
    /\ all_message_content = ""
    /\ drive_links = << >>
    /\ actual_name = NoName
    /\ sender_name = ""
    /\ is_potential_referral = FALSE
    /\ resume_downloaded = FALSE
    /\ attachments_processed = FALSE
    /\ i = 0
    /\ item_index = 0
    /\ att_index = 0
    /\ message_attachments = << >>
    /\ downloaded_attachments = << >>
    /\ full_messages = << >>
    /\ result = NoResult
    /\ resumes = [x \in {} |-> 0]
    /\ calls = << >>

\* Lines 176-243: the first pass, the signature search, the classification.
AnalyzeConversation ==
    /\ pc = "analyze"
    /\ all_message_content' = AllMessageContent(message_items, Len(message_items))
    /\ drive_links' = CollectDriveLinks(message_items, Len(message_items))
    /\ \E name \in SignatureNames(all_message_content') :
          /\ actual_name' = name
          /\ sender_name' = IF name # NoName THEN Replace(name, " ", "_")
                            ELSE Replace(display_name, " ", "_")
    /\ is_potential_referral' = is_referral_request(all_message_content')
    /\ resume_downloaded' = FALSE
    /\ i' = 0
    /\ pc' = "drive"
    /\ UNCHANGED << message_items, display_name, attachments_processed, item_index,
                    att_index, message_attachments, downloaded_attachments,
                    full_messages, result, resumes, calls >>
    /\ UNCHANGED << clsVars, resVars, anVars, runVars >>

\* The file at path is opened for writing once more.
Written(store, path) ==
    IF path \in DOMAIN store THEN [store EXCEPT ![path] = @ + 1] ELSE Put(store, path, 1)

\* One download call, as the model records it.
Call(kind, src, url, filename, out) ==
    [kind |-> kind, src |-> src, url |-> url, filename |-> filename,
     success |-> out.success, error |-> out.error, wrote |-> out.wrote]

\* NextDriveIndex with a retry: a failed link is attempted again.
RetryDriveIndex(idx, out) == IF out.success THEN idx + 1 ELSE idx

\* Line 246: the loop index after the call for the link at idx ended in out;
\* the for loop moves on whatever the outcome.
NextDriveIndex(idx, out) == idx + 1

\* Lines 246-257: one turn of the drive-link loop.
DownloadDriveLink ==
    /\ pc = "drive"
    /\ is_potential_referral
    /\ i < Len(drive_links)
    /\ LET drive_link == drive_links[i + 1]
           clean_filename == DriveFilename(sender_name, i)
       IN  \E out \in download_from_google_drive(drive_link) :
              /\ calls' = Append(calls, Call("drive", << i, 0 >>, drive_link, clean_filename, out))
              /\ resumes' = IF out.wrote THEN Written(resumes, PathJoin(RESUMES_DIR, clean_filename))
                            ELSE resumes
              /\ resume_downloaded' = IF out.success THEN TRUE ELSE resume_downloaded
              /\ i' = NextDriveIndex(i, out)
    /\ UNCHANGED << message_items, display_name, pc, all_message_content, drive_links,
                    actual_name, sender_name, is_potential_referral, attachments_processed,
                    item_index, att_index, message_attachments, downloaded_attachments,
                    full_messages, result >>
    /\ UNCHANGED << clsVars, resVars, anVars, runVars >>

\* Lines 244 and 246: the drive-link loop is over, or is not entered.
EndDriveLinks ==
    /\ pc = "drive"
    /\ ~is_potential_referral \/ i >= Len(drive_links)
    /\ pc' = "items"
    /\ attachments_processed' = FALSE
    /\ item_index' = 0
    /\ UNCHANGED << message_items, display_name, all_message_content, drive_links,
                    actual_name, sender_name, is_potential_referral, resume_downloaded,
                    i, att_index, message_attachments, downloaded_attachments,
                    full_messages, result, resumes, calls >>
    /\ UNCHANGED << clsVars, resVars, anVars, runVars >>

\* Lines 262-274: message_info of the event at item_index, from its body.
BodyInfo(item) ==
    IF ~item.has_body THEN EmptyDict
    ELSE LET withContent == Put(EmptyDict, "content", item.body)
             links == FindDriveLinks(item.body)
         IN  IF is_potential_referral /\ links # << >>
             THEN Put(withContent, "google_drive_links", links)
             ELSE withContent

\* Line 348: full_messages.append(message_info) when message_info is not empty.
Appended(messages, message_info) ==
    IF DOMAIN message_info # {} THEN Append(messages, message_info) ELSE messages

\* Lines 262-349 for an event whose attachments are not looked at: not a
\* referral, attachments already processed, or no attachment element.
ProcessItemBody ==
    /\ pc = "items"
    /\ item_index < Len(message_items)
    /\ LET item == message_items[item_index + 1]
       IN  /\ ~(is_potential_referral /\ ~attachments_processed /\ item.attachments # << >>)
           /\ full_messages' = Appended(full_messages, BodyInfo(item))
    /\ item_index' = item_index + 1
    /\ UNCHANGED << message_items, display_name, pc, all_message_content, drive_links,
                    actual_name, sender_name, is_potential_referral, resume_downloaded,
                    attachments_processed, i, att_index, message_attachments,
                    downloaded_attachments, result, resumes, calls >>
    /\ UNCHANGED << clsVars, resVars, anVars, runVars >>

\* Lines 288-294: the attachment loop of the event at item_index begins.
BeginAttachments ==
    /\ pc = "items"
    /\ item_index < Len(message_items)
    /\ is_potential_referral
    /\ ~attachments_processed
    /\ message_items[item_index + 1].attachments # << >>
    /\ message_attachments' = << >>
    /\ downloaded_attachments' = << >>
    /\ att_index' = 0
    /\ pc' = "attachments"
    /\ UNCHANGED << message_items, display_name, all_message_content, drive_links,
                    actual_name, sender_name, is_potential_referral, resume_downloaded,
                    attachments_processed, i, item_index, full_messages, result,
                    resumes, calls >>
    /\ UNCHANGED << clsVars, resVars, anVars, runVars >>

\* Lines 295-335: one eligible attachment is downloaded.
DownloadAttachment ==
    /\ pc = "attachments"
    /\ att_index < Len(message_items[item_index + 1].attachments)
    /\ LET attachment == message_items[item_index + 1].attachments[att_index + 1]
           clean_filename == AttachmentFilename(sender_name)
           file_path == PathJoin(RESUMES_DIR, clean_filename)
       IN  /\ EligibleAttachment(attachment)
           /\ \E out \in download_file(attachment.href) :
                 /\ calls' = Append(calls, Call("attachment", << item_index, att_index >>,
                                                attachment.href, clean_filename, out))
                 /\ resumes' = IF out.wrote THEN Written(resumes, file_path) ELSE resumes
                 /\ message_attachments' =
                        IF out.success
                        THEN Append(message_attachments,
                                    [filename |-> clean_filename, saved_path |-> file_path,
                                     original_url |-> attachment.href, is_resume |-> TRUE])
                        ELSE message_attachments
                 /\ downloaded_attachments' =
                        IF out.success THEN Append(downloaded_attachments, clean_filename)
                        ELSE downloaded_attachments
                 /\ resume_downloaded' = IF out.success THEN TRUE ELSE resume_downloaded
    /\ att_index' = att_index + 1
    /\ UNCHANGED << message_items, display_name, pc, all_message_content, drive_links,
                    actual_name, sender_name, is_potential_referral, attachments_processed,
                    i, item_index, full_messages, result >>
    /\ UNCHANGED << clsVars, resVars, anVars, runVars >>

\* Lines 297-309: an attachment without a /dms/ link, or that is neither a
\* PDF nor resume-like, is passed over.
SkipAttachment ==
    /\ pc = "attachments"
    /\ att_index < Len(message_items[item_index + 1].attachments)
    /\ ~EligibleAttachment(message_items[item_index + 1].attachments[att_index + 1])
    /\ att_index' = att_index + 1
    /\ UNCHANGED << message_items, display_name, pc, all_message_content, drive_links,
                    actual_name, sender_name, is_potential_referral, resume_downloaded,
                    attachments_processed, i, item_index, message_attachments,
                    downloaded_attachments, full_messages, result, resumes, calls >>
    /\ UNCHANGED << clsVars, resVars, anVars, runVars >>

\* ", ".join(names)
RECURSIVE JoinComma(_)
JoinComma(names) ==
    IF names = << >> THEN ""
    ELSE IF Len(names) = 1 THEN names[1]
    ELSE names[1] \o ", " \o JoinComma(Tail(names))

\* Lines 340-349: the attachment loop of the event is over.
EndAttachments ==
    /\ pc = "attachments"
    /\ att_index >= Len(message_items[item_index + 1].attachments)
    /\ LET body_info == BodyInfo(message_items[item_index + 1])
           with_attachments ==
               IF message_attachments # << >>
               THEN Put(body_info, "attachments", message_attachments)
               ELSE body_info
           message_info ==
               IF downloaded_attachments # << >>
               THEN Put(with_attachments, "attachment_downloaded",
                        JoinComma(downloaded_attachments))
               ELSE with_attachments
       IN  full_messages' = Appended(full_messages, message_info)
    /\ attachments_processed' = IF downloaded_attachments # << >> THEN TRUE
                                ELSE attachments_processed
    /\ item_index' = item_index + 1
    /\ pc' = "items"
    /\ UNCHANGED << message_items, display_name, all_message_content, drive_links,
                    actual_name, sender_name, is_potential_referral, resume_downloaded,
                    i, att_index, message_attachments, downloaded_attachments, result,
                    resumes, calls >>
    /\ UNCHANGED << clsVars, resVars, anVars, runVars >>

\* ConversationInfo that takes a drive link in the text for a resume
\* downloaded.
ConversationInfoLinkCounts ==
    LET base == [sender |-> display_name,
                 is_potential_referral |-> is_potential_referral,
                 has_resume_downloaded |-> (resume_downloaded \/ drive_links # << >>),
                 messages |-> full_messages]
        named == IF actual_name # NoName THEN Put(base, "actual_name", actual_name) ELSE base
    IN  IF drive_links # << >> THEN Put(named, "google_drive_links", drive_links) ELSE named

\* Lines 351-369: the dictionary returned.  conversation_info comes with the
\* sender (and a preview, which the model leaves out).
ConversationInfo ==
    LET base == [sender |-> display_name,
                 is_potential_referral |-> is_potential_referral,
                 has_resume_downloaded |-> resume_downloaded,
                 messages |-> full_messages]
        named == IF actual_name # NoName THEN Put(base, "actual_name", actual_name) ELSE base
    IN  IF drive_links # << >> THEN Put(named, "google_drive_links", drive_links) ELSE named

ReturnResult ==
    /\ pc = "items"
    /\ item_index >= Len(message_items)
    /\ result' = ConversationInfo
    /\ pc' = "done"
    /\ UNCHANGED << message_items, display_name, all_message_content, drive_links,
                    actual_name, sender_name, is_potential_referral, resume_downloaded,
                    attachments_processed, i, item_index, att_index, message_attachments,
                    downloaded_attachments, full_messages, resumes, calls >>
    /\ UNCHANGED << clsVars, resVars, anVars, runVars >>

\* The classifier and the matching are not running.
ClsIdle ==
    /\ cpc = "idle"
    /\ text = ""
    /\ wider_text = ""
    /\ text_is_referral = FALSE
    /\ wider_is_referral = FALSE

NoKey == ""
NoContent == ""

ResIdle ==
    /\ rpc = "idle"
    /\ messages_data = << >>
    /\ message_content_by_sender = << >>
    /\ file_basename = ""
    /\ file_sender_name = ""
    /\ matched_key = NoKey
    /\ message_content = NoContent

\* No row yet.
NoAnalysis == [field \in {} |-> ""]

\* analyze_resume_with_gpt is not running.
AnIdle ==
    /\ apc = "idle"
    /\ arg_sender_name = ""
    /\ arg_message_content = [none |-> TRUE, s |-> ""]
    /\ resume_response = [kind |-> "none", error |-> "", data |-> EmptyDict]
    /\ job_id_response = [kind |-> "none", error |-> "", data |-> EmptyDict]
    /\ resume_content = ""
    /\ job_id_content = ""
    /\ analysis = NoAnalysis
    /\ renormalized = NoAnalysis

\* main is not running.
RunIdle ==
    /\ mpc = "idle"
    /\ unread_conversations = << >>
    /\ convo_index = 0
    /\ unread_messages = << >>
    /\ referral_requests = << >>
    /\ resumes_found = 0
    /\ no_resume_listed = << >>
    /\ resume_files = {}
    /\ analyses = << >>
    /\ steps = << >>

Init == AcqInit /\ ClsIdle /\ ResIdle /\ AnIdle /\ RunIdle

Next ==
    \/ AnalyzeConversation
    \/ DownloadDriveLink
    \/ EndDriveLinks
    \/ ProcessItemBody
    \/ BeginAttachments
    \/ DownloadAttachment
    \/ SkipAttachment
    \/ EndAttachments
    \/ ReturnResult

Spec == Init /\ [][Next]_vars

(***************************************************************************)
(* The classifier, applied to a text and to a text that contains it.       *)
(***************************************************************************)

MaxPieces == 2

\* What the texts of the model are made of.
ClassifierPieces == {"LinkedIn job", "Refer", "hello ", "jobid", "Job  ID", ": ", "a7"}

RECURSIVE Concat(_)
Concat(q) == IF q = << >> THEN "" ELSE Head(q) \o Concat(Tail(q))

ClassifierTexts ==
    { Concat(q) : q \in UNION { [1..n -> ClassifierPieces] : n \in 0..MaxPieces } }

ClsInit ==
    /\ cpc = "ready"
    /\ text \in ClassifierTexts
    /\ \E before, after \in ClassifierPieces \cup {""} : wider_text = before \o text \o after
    /\ text_is_referral = FALSE
    /\ wider_is_referral = FALSE

\* The scraper is not running.
AcqIdle ==
    /\ message_items = << >>
    /\ display_name = ""
    /\ pc = "idle"
    /\ all_message_content = ""
    /\ drive_links = << >>
    /\ actual_name = NoName
    /\ sender_name = ""
    /\ is_potential_referral = FALSE
    /\ resume_downloaded = FALSE
    /\ attachments_processed = FALSE
    /\ i = 0
    /\ item_index = 0
    /\ att_index = 0
    /\ message_attachments = << >>
    /\ downloaded_attachments = << >>
    /\ full_messages = << >>
    /\ result = NoResult
    /\ resumes = [x \in {} |-> 0]
    /\ calls = << >>

\* is_referral_request(text)
ClassifyText ==
    /\ cpc = "ready"
    /\ text_is_referral' = is_referral_request(text)
    /\ cpc' = "text"
    /\ UNCHANGED << text, wider_text, wider_is_referral, acqVars, resVars, anVars, runVars >>

\* is_referral_request(wider_text)
ClassifyWiderText ==
    /\ cpc = "text"
    /\ wider_is_referral' = is_referral_request(wider_text)
    /\ cpc' = "done"
    /\ UNCHANGED << text, wider_text, text_is_referral, acqVars, resVars, anVars, runVars >>

ClassifierNext == ClassifyText \/ ClassifyWiderText

ClassifierInit == AcqIdle /\ ClsInit /\ ResIdle /\ AnIdle /\ RunIdle

ClassifierSpec == ClassifierInit /\ [][ClassifierNext]_vars

(***************************************************************************)
(* process_linkedin_messages: the matching of a resume file to the message *)
(* content of a conversation.                                              *)
(***************************************************************************)

MaxConversations == 2

\* The display names of the conversations of the model.
DisplayNames ==
    {"John Smith", "Jane Doe", "John Smith John", "john smith", "John", "John Smith Jr"}

\* The names of the resume files of the model.
ResumeFiles ==
    {"john_smith_resume.pdf", "j_smith_resume.pdf", "John_Smith_resume_2.pdf",
     "Jane_Doe_cv.pdf", "smith.pdf", "doe_smith_smith.pdf"}

\* The conversations of a linkedin_referrals file: with or without a
\* signature name, with or without message text.
Conversations ==
    { [sender |-> n, actual_name |-> a, messages |-> m] :
        n \in DisplayNames,
        a \in {NoName, "Jane Doe"},
        m \in { << >>, << [content |-> "please refer me"] >> } }

\* d[key] = value on a dictionary kept as the sequence of its items, in
\* insertion order.
DictSet(d, key, value) ==
    IF \E n \in DOMAIN d : d[n].key = key
    THEN [n \in DOMAIN d |-> IF d[n].key = key THEN [key |-> key, value |-> value] ELSE d[n]]
    ELSE Append(d, [key |-> key, value |-> value])

DictKeys(d) == [n \in DOMAIN d |-> d[n].key]

DictGet(d, key) == d[CHOOSE n \in DOMAIN d : d[n].key = key].value

\* Lines 497-507: the key of a conversation.
SenderKey(msg) ==
    IF msg.actual_name # NoName THEN Replace(msg.actual_name, " ", "_")
    ELSE Replace(msg.sender, " ", "_")

\* Lines 510-514: the message text of a conversation.
RECURSIVE FullContent(_)
FullContent(messages) ==
    IF messages = << >> THEN ""
    ELSE (IF Head(messages).content # "" THEN Head(messages).content \o "\n" ELSE "")
         \o FullContent(Tail(messages))

\* Lines 496-517: message_content_by_sender after the first n conversations.
RECURSIVE ContentBySender(_, _)
ContentBySender(data, n) ==
    IF n = 0 THEN << >>
    ELSE LET d == ContentBySender(data, n - 1)
             full_content == FullContent(data[n].messages)
         IN  IF full_content # "" THEN DictSet(d, SenderKey(data[n]), full_content) ELSE d

\* os.path.splitext(name)[0]
RECURSIVE LastDot(_, _)
LastDot(name, n) ==
    IF n = 0 THEN 0 ELSE IF Char(name, n) = "." THEN n ELSE LastDot(name, n - 1)

SplitExtRoot(name) ==
    LET dot == LastDot(name, Len(name))
    IN  IF dot = 0 \/ \A n \in 1..(dot - 1) : Char(name, n) = "." THEN name
        ELSE SubSeq(name, 1, dot - 1)

\* s.split(sep)[0]
SplitFirst(s, sep) == IF Contains(s, sep) THEN SubSeq(s, 1, Find(s, sep) - 1) ELSE s

\* Lines 550-556: the sender name a resume file's name stands for.
SenderNameOfFile(basename) ==
    IF Contains(basename, "_resume") THEN SplitFirst(basename, "_resume")
    ELSE IF Contains(Lower(basename), "_cv") THEN SplitFirst(basename, "_cv")
    ELSE SplitExtRoot(basename)

\* Lines 578-579: name.lower().replace('_', ' ')
CleanName(name) == Replace(Lower(name), "_", " ")

\* PartialStep, a key taking over from the best so far on an equal score.
PartialStepLastWins(best, key, sender) ==
    LET clean_sender == CleanName(sender)
        clean_key == CleanName(key)
        sender_parts == Range(Split(clean_sender))
        key_parts == Range(Split(clean_key))
        num == Cardinality(sender_parts \cap key_parts)
        a == Cardinality(sender_parts)
        b == Cardinality(key_parts)
        den == IF a > b THEN a ELSE b
    IN  IF best.raised THEN best
        ELSE IF ~(Contains(clean_key, clean_sender) \/ Contains(clean_sender, clean_key))
        THEN best
        ELSE IF den = 0 THEN [best EXCEPT !.raised = TRUE]
        ELSE IF num * best.den >= best.num * den
        THEN [key |-> key, num |-> num, den |-> den, raised |-> FALSE]
        ELSE best

\* Lines 581-590: one turn of the partial-match loop.  The score is kept as
\* the fraction num/den; best is the best match so far.
PartialStep(best, key, sender) ==
    LET clean_sender == CleanName(sender)
        clean_key == CleanName(key)
        sender_parts == Range(Split(clean_sender))
        key_parts == Range(Split(clean_key))
        common_parts == sender_parts \cap key_parts
        num == Cardinality(common_parts)
        a == Cardinality(sender_parts)
        b == Cardinality(key_parts)
        den == IF a > b THEN a ELSE b
    IN  IF best.raised THEN best
        ELSE IF ~(Contains(clean_key, clean_sender) \/ Contains(clean_sender, clean_key))
        THEN best
        ELSE IF den = 0 THEN [best EXCEPT !.raised = TRUE]
        ELSE IF num * best.den > best.num * den
        THEN [key |-> key, num |-> num, den |-> den, raised |-> FALSE]
        ELSE best

\* Lines 573-590: the partial-match loop over the first n keys.
RECURSIVE PartialMatch(_, _, _)
PartialMatch(keys, n, sender) ==
    IF n = 0 THEN [key |-> NoKey, num |-> 0, den |-> 1, raised |-> FALSE]
    ELSE PartialStep(PartialMatch(keys, n - 1, sender), keys[n], sender)

\* MatchingParts, counting only the first part of the file's name.
FirstPartMatches(sender_parts, key_parts) ==
    IF sender_parts # << >> /\ sender_parts[1] \in Range(key_parts) THEN 1 ELSE 0

\* Line 608: sum(1 for part in sender_parts if part in key_parts)
MatchingParts(sender_parts, key_parts) ==
    Cardinality({ n \in DOMAIN sender_parts : sender_parts[n] \in Range(key_parts) })

\* NamePartsMatch, a key taking over from the best so far on an equal count.
RECURSIVE NamePartsMatchLastWins(_, _, _)
NamePartsMatchLastWins(keys, n, sender) ==
    IF n = 0 THEN [key |-> NoKey, count |-> 0]
    ELSE LET best == NamePartsMatchLastWins(keys, n - 1, sender)
             sender_parts == Split(Lower(Replace(sender, "_", " ")))
             key_parts == Split(Lower(Replace(keys[n], "_", " ")))
             matching_parts == MatchingParts(sender_parts, key_parts)
         IN  IF matching_parts >= best.count /\ matching_parts > 0
             THEN [key |-> keys[n], count |-> matching_parts]
             ELSE best

\* Lines 601-611: the name-parts loop over the first n keys.
RECURSIVE NamePartsMatch(_, _, _)
NamePartsMatch(keys, n, sender) ==
    IF n = 0 THEN [key |-> NoKey, count |-> 0]
    ELSE LET best == NamePartsMatch(keys, n - 1, sender)
             sender_parts == Split(Lower(Replace(sender, "_", " ")))
             key_parts == Split(Lower(Replace(keys[n], "_", " ")))
             matching_parts == MatchingParts(sender_parts, key_parts)
         IN  IF matching_parts > best.count
             THEN [key |-> keys[n], count |-> matching_parts]
             ELSE best

\* Lines 566-619: the key whose message content the file is given, NoKey when
\* there is none, and whether the score's division raised.
MatchedKey(d, sender) ==
    LET keys == DictKeys(d)
        partial == PartialMatch(keys, Len(keys), sender)
        parts == NamePartsMatch(keys, Len(keys), sender)
    IN  IF sender \in Range(keys) THEN [key |-> sender, raised |-> FALSE]
        ELSE IF partial.raised THEN [key |-> NoKey, raised |-> TRUE]
        ELSE IF partial.key # NoKey THEN [key |-> partial.key, raised |-> FALSE]
        ELSE [key |-> parts.key, raised |-> FALSE]

ResInit ==
    /\ rpc = "load"
    /\ messages_data \in UNION { [1..n -> Conversations] : n \in 0..MaxConversations }
    /\ file_basename \in ResumeFiles
    /\ message_content_by_sender = << >>
    /\ file_sender_name = ""
    /\ matched_key = NoKey
    /\ message_content = NoContent

\* Lines 493-517: message_content_by_sender is built.
BuildContentBySender ==
    /\ rpc = "load"
    /\ message_content_by_sender' = ContentBySender(messages_data, Len(messages_data))
    /\ rpc' = "file"
    /\ UNCHANGED << messages_data, file_basename, file_sender_name, matched_key,
                    message_content, acqVars, clsVars, anVars, runVars >>

\* Lines 546-558: the sender name is taken from the file name.
ExtractSenderName ==
    /\ rpc = "file"
    /\ file_sender_name' = SenderNameOfFile(file_basename)
    /\ rpc' = "match"
    /\ UNCHANGED << messages_data, message_content_by_sender, file_basename, matched_key,
                    message_content, acqVars, clsVars, anVars, runVars >>

\* Lines 560-619: the message content of the file is looked up.
MatchMessageContent ==
    /\ rpc = "match"
    /\ LET m == MatchedKey(message_content_by_sender, file_sender_name)
       IN  /\ ~m.raised
           /\ matched_key' = m.key
           /\ message_content' = IF m.key # NoKey THEN DictGet(message_content_by_sender, m.key)
                                 ELSE NoContent
    /\ rpc' = "matched"
    /\ UNCHANGED << messages_data, message_content_by_sender, file_basename,
                    file_sender_name, acqVars, clsVars, anVars, runVars >>

ResolverNext == BuildContentBySender \/ ExtractSenderName \/ MatchMessageContent

ResolverInit == AcqIdle /\ ClsIdle /\ ResInit /\ AnIdle /\ RunIdle

ResolverSpec == ResolverInit /\ [][ResolverNext]_vars

(***************************************************************************)
(* analyze_resume_with_gpt: the row made of the two responses of the       *)
(* extraction service.  A response is modelled by what json.loads makes of *)
(* its cleaned content; the resume text only reaches the prompt and is not *)
(* modelled.                                                               *)
(***************************************************************************)

\* The values json.loads yields for a field: null, a string, a number (held
\* in hundredths, 350 for 3.5).
JNull == [type |-> "null", s |-> "", n |-> 0]
JStr(s) == [type |-> "string", s |-> s, n |-> 0]
JNum(hundredths) == [type |-> "number", s |-> "", n |-> hundredths]

\* not value
Falsy(value) ==
    \/ value.type = "null"
    \/ value.type = "string" /\ value.s = ""
    \/ value.type = "number" /\ value.n = 0

\* Python's None and a str, as the values of message_content.
None == [none |-> TRUE, s |-> ""]
Some(s) == [none |-> FALSE, s |-> s]

NOT_FOUND == "Not found"
PARSE_ERROR == "Error parsing API response"

\* What a call of client.chat.completions.create ends in: an exception, or
\* a content that json.loads rejects ("invalid"), turns into a list
\* ("array") or turns into the dictionary data ("object").
ApiRaises(error) == [kind |-> "raise", error |-> error, data |-> EmptyDict]
ApiInvalid == [kind |-> "invalid", error |-> "", data |-> EmptyDict]
ApiArray == [kind |-> "array", error |-> "", data |-> EmptyDict]
ApiObject(data) == [kind |-> "object", error |-> "", data |-> data]

\* dict.get(key, default)
Get(data, key, default) == IF key \in DOMAIN data THEN data[key] ELSE default

\* [A-Za-z0-9-]
TokenChars == UpperLetters \cup LowerLetters \cup Digits \cup {"-"}

\* Where a greedy [A-Za-z0-9-]* started at pos ends.
RECURSIVE SkipToken(_, _)
SkipToken(s, pos) ==
    IF pos <= Len(s) /\ Char(s, pos) \in TokenChars THEN SkipToken(s, pos + 1) ELSE pos

\* Where a greedy (?:,\s*[A-Za-z0-9-]+)* started at pos ends.
RECURSIVE SkipMoreIds(_, _)
SkipMoreIds(s, pos) ==
    LET b == SkipWs(s, pos + 1)
        e == SkipToken(s, b)
    IN  IF pos <= Len(s) /\ Char(s, pos) = "," /\ e > b THEN SkipMoreIds(s, e) ELSE pos

\* The group captured when (?:Job\s*ID|JobId):\s*([A-Za-z0-9-]+(?:,\s*
\* [A-Za-z0-9-]+)*) matches s from position pos (re.IGNORECASE), "" when it
\* does not match there.
JobIdGroupAt(s, pos) ==
    LET b == SkipWs(s, pos + 3)
        c == b + 2
        d == SkipWs(s, c + 1)
        e == SkipToken(s, d)
    IN  IF /\ OccursAtIgnoreCase(s, "job", pos)
           /\ OccursAtIgnoreCase(s, "id", b)
           /\ c <= Len(s) /\ Char(s, c) = ":"
           /\ e > d
        THEN SubSeq(s, d, SkipMoreIds(s, e) - 1)
        ELSE ""

\* re.findall(...)[0], "" when there is no match.
RECURSIVE FirstJobIdMatchFrom(_, _)
FirstJobIdMatchFrom(s, pos) ==
    IF pos > Len(s) THEN ""
    ELSE IF JobIdGroupAt(s, pos) # "" THEN JobIdGroupAt(s, pos)
    ELSE FirstJobIdMatchFrom(s, pos + 1)

\* RegexBackupJobId without the replacement of the commas.
RegexBackupKeepsCommas(content) ==
    LET m == FirstJobIdMatchFrom(content, 1)
    IN  IF m # "" THEN JStr(m) ELSE JStr(NOT_FOUND)

\* Lines 408-413: the regex backup of the job id.
RegexBackupJobId(content) ==
    LET m == FirstJobIdMatchFrom(content, 1)
    IN  IF m # "" THEN JStr(Replace(m, ",", ";")) ELSE JStr(NOT_FOUND)

\* Lines 395-413: the job id made of the response of the job-id call.
\* A list has no get: the AttributeError is caught like a parse error.
ParsedJobId(job_id_call, content) ==
    IF job_id_call.kind = "object"
    THEN Get(job_id_call.data, "job_id", JStr(NOT_FOUND))
    ELSE RegexBackupJobId(content)

required_fields == << "name", "email", "phone", "years_of_experience", "job_id" >>

\* Lines 456-464: the row of the outermost except.  The job_id is not an
\* f-string.
ExceptionRow(sender, error) ==
    [name |-> JStr(sender),
     email |-> JStr("Error: " \o error),
     phone |-> JStr("Error: " \o error),
     years_of_experience |-> JStr("Error: " \o error),
     job_id |-> JStr("Error: {str(e)}")]

\* JSONDecodeErrorRow with the job id passed on as it is.
JSONDecodeErrorRowKeepsJobId(sender, job_id) ==
    [name |-> JStr(sender),
     email |-> JStr(PARSE_ERROR),
     phone |-> JStr(PARSE_ERROR),
     years_of_experience |-> JStr(PARSE_ERROR),
     job_id |-> job_id]

\* Lines 445-454: the row of a resume response that is no JSON.
JSONDecodeErrorRow(sender, job_id) ==
    [name |-> JStr(sender),
     email |-> JStr(PARSE_ERROR),
     phone |-> JStr(PARSE_ERROR),
     years_of_experience |-> JStr(PARSE_ERROR),
     job_id |-> IF job_id # JStr(NOT_FOUND) THEN job_id ELSE JStr(PARSE_ERROR)]

\* RequiredField that takes the placeholder itself for a value to clear.
RequiredFieldClearsPlaceholder(value) ==
    IF Falsy(value) THEN JStr(NOT_FOUND)
    ELSE IF value = JStr(NOT_FOUND) THEN JNull
    ELSE value

\* Lines 440-441: a required field after the check.
RequiredField(value) == IF Falsy(value) THEN JStr(NOT_FOUND) ELSE value

\* Lines 437-441: the loop over required_fields (result has all five keys).
EnsureRequiredFields(row) ==
    [field \in Range(required_fields) |-> RequiredField(row[field])]

\* Lines 429-435: the row combined of the resume data and the job id.
CombinedRow(resume_data, job_id) ==
    [name |-> Get(resume_data, "name", JStr(NOT_FOUND)),
     email |-> Get(resume_data, "email", JStr(NOT_FOUND)),
     phone |-> Get(resume_data, "phone", JStr(NOT_FOUND)),
     years_of_experience |-> Get(resume_data, "years_of_experience", JStr(NOT_FOUND)),
     job_id |-> job_id]

\* Lines 417-454: the row once both calls have returned.
ParsedRow(sender, resume_call, job_id) ==
    IF resume_call.kind = "object"
    THEN EnsureRequiredFields(CombinedRow(resume_call.data, job_id))
    ELSE IF resume_call.kind = "invalid"
    THEN JSONDecodeErrorRow(sender, job_id)
    ELSE ExceptionRow(sender, "'list' object has no attribute 'get'")

\* analyze_resume_with_gpt(resume_text, sender_name, message_content,
\* filename), given what the two calls of the service end in.  Line 316
\* takes len(message_content) before any call; the job-id call is only made
\* for a non-empty message_content.
analyze_resume_with_gpt(sender, content, resume_call, job_id_call) ==
    IF content.none
    THEN ExceptionRow(sender, "object of type 'NoneType' has no len()")
    ELSE IF resume_call.kind = "raise"
    THEN ExceptionRow(sender, resume_call.error)
    ELSE IF content.s = ""
    THEN ParsedRow(sender, resume_call, JStr(NOT_FOUND))
    ELSE IF job_id_call.kind = "raise"
    THEN ExceptionRow(sender, job_id_call.error)
    ELSE ParsedRow(sender, resume_call,
                   ParsedJobId(job_id_call, content.s))

\* The sender names, as taken from the names of resume files.
AnalyzerSenderNames == {"John_Smith", "Jane_Doe"}

\* The message contents process_linkedin_messages passes: None when no
\* conversation was matched, the non-empty text of the matched one otherwise.
AnalyzerMessageContents ==
    {None, Some("Job ID: A1, B2\n"), Some("please refer me\n"),
     Some("Job ID: A1\nJobId: B2\n")}

\* The dictionaries the resume call may answer with: all four keys, no key,
\* or two keys, with values that are present, empty, null or zero.
ResumeDatas ==
    { [name |-> JStr("John Smith"), email |-> e, phone |-> ph, years_of_experience |-> y] :
        e \in {JStr("j@x.com"), JStr("")},
        ph \in {JStr("555"), JNull},
        y \in {JNum(350), JNum(310), JNum(0), JStr(NOT_FOUND)} }
    \cup { [name |-> JStr(""), years_of_experience |-> y] : y \in {JNum(425), JNull} }
    \cup { EmptyDict }

ResumeResponses ==
    {ApiRaises("Connection error."), ApiInvalid, ApiArray}
    \cup { ApiObject(data) : data \in ResumeDatas }

JobIdResponses ==
    {ApiRaises("Connection error."), ApiInvalid, ApiArray, ApiObject(EmptyDict)}
    \cup { ApiObject([job_id |-> v]) : v \in {JStr("REQ-5521"), JStr(""), JNull} }

AnInit ==
    /\ apc = "ready"
    /\ arg_sender_name \in AnalyzerSenderNames
    /\ arg_message_content \in AnalyzerMessageContents
    /\ resume_response \in ResumeResponses
    /\ job_id_response \in JobIdResponses
    /\ resume_content = ""
    /\ job_id_content = ""
    /\ analysis = NoAnalysis
    /\ renormalized = NoAnalysis

\* analysis = analyze_resume_with_gpt(...), line 638.
AnalyzeResume ==
    /\ apc = "ready"
    /\ analysis' = analyze_resume_with_gpt(arg_sender_name, arg_message_content,
                                           resume_response, job_id_response)
    /\ apc' = "analyzed"
    /\ UNCHANGED << arg_sender_name, arg_message_content, resume_response,
                    job_id_response, resume_content, job_id_content, renormalized,
                    acqVars, clsVars, resVars, runVars >>

\* The row returned is put through the loop of lines 437-441 once more.
EnsureRequiredFieldsAgain ==
    /\ apc = "analyzed"
    /\ renormalized' = EnsureRequiredFields(analysis)
    /\ apc' = "renormalized"
    /\ UNCHANGED << arg_sender_name, arg_message_content, resume_response,
                    job_id_response, resume_content, job_id_content, analysis,
                    acqVars, clsVars, resVars, runVars >>

AnalyzerNext == AnalyzeResume \/ EnsureRequiredFieldsAgain

AnalyzerInit == AcqIdle /\ ClsIdle /\ ResIdle /\ AnInit /\ RunIdle

AnalyzerSpec == AnalyzerInit /\ [][AnalyzerNext]_vars

(***************************************************************************)
(* analyze_resume_with_gpt, from the texts of the two responses: the       *)
(* cleaning of a response and json.loads.                                  *)
(***************************************************************************)

\* The last position <= pos of s that holds no whitespace, 0 when there is
\* none.
RECURSIVE SkipWsBack(_, _)
SkipWsBack(s, pos) ==
    IF pos >= 1 /\ Char(s, pos) \in Whitespace THEN SkipWsBack(s, pos - 1) ELSE pos

\* s.strip()
Strip(s) == SubSeq(s, SkipWs(s, 1), SkipWsBack(s, Len(s)))

\* The code-fence marker, three grave accents in the source: a TLA+ string
\* cannot hold that character, and three tildes stand for it in the texts of
\* the model.
CodeFence == "~~~"

\* Lines 397-400 and 420-423: the response stripped and, when it starts with
\* a code fence, without its first line and without a closing line break and
\* code fence.
CleanedContent(reply) ==
    LET stripped == Strip(reply)
        newline == Find(stripped, "\n")
        opened == IF newline # 0 THEN SubSeq(stripped, newline + 1, Len(stripped))
                  ELSE stripped
        closed == IF EndsWith(opened, "\n" \o CodeFence) THEN SubSeq(opened, 1, Len(opened) - 4)
                  ELSE opened
    IN  IF OccursAt(stripped, CodeFence, 1) THEN closed ELSE stripped

\* The JSON documents of the model and the dictionaries json.loads makes of
\* them.
JsonDocuments ==
    { [text |-> "{\"name\": \"John Smith\", \"email\": \"j@x.com\"}",
       data |-> [name |-> JStr("John Smith"), email |-> JStr("j@x.com")]],
      [text |-> "{\"job_id\": \"REQ-5521\"}",
       data |-> [job_id |-> JStr("REQ-5521")]] }

\* json.loads(s), lines 402 and 425: a document with nothing but whitespace
\* around it is loaded; any other text of the model raises JSONDecodeError.
JsonLoads(s) ==
    IF \E d \in JsonDocuments : d.text = Strip(s)
    THEN ApiObject((CHOOSE d \in JsonDocuments : d.text = Strip(s)).data)
    ELSE ApiInvalid

\* The shapes in which the service may hand a JSON document back: bare,
\* between code-fence markers, after prose, before prose.
Bare(document) == document
Fenced(document) == CodeFence \o "json\n" \o document \o "\n" \o CodeFence
AfterProse(document) == "Here is the JSON:\n" \o document
BeforeProse(document) == document \o "\nLet me know if you need more."

Shapes(document) ==
    {Bare(document), Fenced(document), AfterProse(document), BeforeProse(document)}

\* The texts of the responses: every document in every shape, a document
\* with whitespace around it, a fence without a language, and plain prose.
ResponseContents ==
    UNION { Shapes(d.text) : d \in JsonDocuments }
    \cup { "\n" \o d.text \o " \n" : d \in JsonDocuments }
    \cup { CodeFence \o "\n" \o d.text \o "\n" \o CodeFence : d \in JsonDocuments }
    \cup { "I could not read this." }

ContentsInit ==
    /\ apc = "respond"
    /\ arg_sender_name \in AnalyzerSenderNames
    /\ arg_message_content \in AnalyzerMessageContents \ {None}
    /\ resume_content \in ResponseContents
    /\ job_id_content \in ResponseContents
    /\ resume_response = [kind |-> "none", error |-> "", data |-> EmptyDict]
    /\ job_id_response = [kind |-> "none", error |-> "", data |-> EmptyDict]
    /\ analysis = NoAnalysis
    /\ renormalized = NoAnalysis

\* analyze_resume_with_gpt with both calls returning a text: each text is
\* cleaned and loaded (lines 395-403, 417-426), and the row is made.
AnalyzeResponseContents ==
    /\ apc = "respond"
    /\ resume_response' = JsonLoads(CleanedContent(resume_content))
    /\ job_id_response' = JsonLoads(CleanedContent(job_id_content))
    /\ analysis' = analyze_resume_with_gpt(arg_sender_name, arg_message_content,
                                           resume_response', job_id_response')
    /\ apc' = "analyzed"
    /\ UNCHANGED << arg_sender_name, arg_message_content, resume_content, job_id_content,
                    renormalized, acqVars, clsVars, resVars, runVars >>

ResponseNext == AnalyzeResponseContents \/ EnsureRequiredFieldsAgain

ResponseInit == AcqIdle /\ ClsIdle /\ ResIdle /\ ContentsInit /\ RunIdle

ResponseSpec == ResponseInit /\ [][ResponseNext]_vars

(***************************************************************************)
(* main: get_linkedin_messages opens every unread conversation, then        *)
(* process_linkedin_messages analyses every file of the resumes folder.     *)
(***************************************************************************)

\* The participant names of the unread conversations, in the order of the
\* list.
ConversationNames == << "John Smith", "Jane Doe", "Ann Lee", "Bob Ray" >>

\* The pages opened: no text and a picture; a request with a drive link; a
\* request with a resume and a picture attached.
PipelineStreams ==
    { << [kind |-> "attachment", text |-> "photo.png"] >>,
      << [kind |-> "text", text |-> "please refer me"],
         [kind |-> "text", text |-> DriveUrlA] >>,
      << [kind |-> "text", text |-> "please refer me"],
         [kind |-> "attachment", text |-> "My CV.docx"],
         [kind |-> "attachment", text |-> "photo.png"] >> }

PipelinePages == { ItemsOf(st, Len(st)) : st \in PipelineStreams }

\* What the two calls of the service end in, for one resume file.
PipelineResponses ==
    { << ApiRaises("Connection error."), ApiInvalid >>,
      << ApiInvalid, ApiObject([job_id |-> JStr("REQ-5521")]) >>,
      << ApiObject([name |-> JStr("John Smith"), years_of_experience |-> JNum(350)]),
         ApiObject([job_id |-> JStr("REQ-5521")]) >> }

\* The locals of extract_message_content, for the page items opened under
\* the name given; the resumes folder is left as it is.
ConversationLocals(items, name, position) ==
    /\ message_items' = items
    /\ display_name' = name
    /\ pc' = position
    /\ all_message_content' = ""
    /\ drive_links' = << >>
    /\ actual_name' = NoName
    /\ sender_name' = ""
    /\ is_potential_referral' = FALSE
    /\ resume_downloaded' = FALSE
    /\ attachments_processed' = FALSE
    /\ i' = 0
    /\ item_index' = 0
    /\ att_index' = 0
    /\ message_attachments' = << >>
    /\ downloaded_attachments' = << >>
    /\ full_messages' = << >>
    /\ result' = NoResult
    /\ calls' = << >>
    /\ UNCHANGED resumes

RunInit ==
    /\ mpc = "scan"
    /\ unread_conversations \in UNION { [1..n -> PipelinePages] : n \in 0..MaxConversations }
    /\ convo_index = 0
    /\ unread_messages = << >>
    /\ referral_requests = << >>
    /\ resumes_found = 0
    /\ no_resume_listed = << >>
    /\ resume_files = {}
    /\ analyses = << >>
    /\ steps = << >>

\* ParticipantName that always reads the first element of the list.
FirstParticipantName(index) == ConversationNames[1]

\* Lines 543-550: the name of the conversation at index (0-based), read
\* from the element at the same index of the list of participant names.
ParticipantName(index) == ConversationNames[index + 1]

\* One stage of one record, and how it ended.
Step(record, stage, outcome) == [record |-> record, stage |-> stage, outcome |-> outcome]

\* Lines 531-570 of get_linkedin_messages: the next unread conversation is
\* opened and extract_message_content is entered.
OpenConversation ==
    /\ mpc = "scan"
    /\ convo_index < Len(unread_conversations)
    /\ ConversationLocals(unread_conversations[convo_index + 1],
                          ParticipantName(convo_index), "analyze")
    /\ mpc' = "conversation"
    /\ UNCHANGED << unread_conversations, convo_index, unread_messages, referral_requests,
                    resumes_found, no_resume_listed, resume_files, analyses, steps >>
    /\ UNCHANGED << clsVars, resVars, anVars >>

\* NextConversation with a break in the except clause.
LastConversation(index, count) == count

\* Line 603: the loop index after the conversation at index raised; the
\* except clause goes on with the next one.
NextConversation(index, count) == index + 1

\* Lines 563-565 raise (the conversation does not open in time), lines
\* 600-603 handle it.
ConversationError ==
    /\ mpc = "scan"
    /\ convo_index < Len(unread_conversations)
    /\ steps' = Append(steps, Step(Replace(ParticipantName(convo_index), " ", "_"),
                                   "scan", "error"))
    /\ convo_index' = NextConversation(convo_index, Len(unread_conversations))
    /\ UNCHANGED << mpc, unread_conversations, unread_messages, referral_requests,
                    resumes_found, no_resume_listed, resume_files, analyses >>
    /\ UNCHANGED << acqVars, clsVars, resVars, anVars >>

\* How lines 573-596 report the conversation.
ScanOutcome(message_data) ==
    IF ~message_data.is_potential_referral THEN "not_referral"
    ELSE IF message_data.has_resume_downloaded THEN "resume"
    ELSE "no_resume"

\* Lines 570-598: extract_message_content has returned.
CloseConversation ==
    /\ mpc = "conversation"
    /\ pc = "done"
    /\ unread_messages' = IF result.is_potential_referral
                          THEN Append(unread_messages, result)
                          ELSE unread_messages
    /\ steps' = Append(steps, Step(sender_name, "scan", ScanOutcome(result)))
    /\ convo_index' = convo_index + 1
    /\ ConversationLocals(<< >>, "", "idle")
    /\ mpc' = "scan"
    /\ UNCHANGED << unread_conversations, referral_requests, resumes_found,
                    no_resume_listed, resume_files, analyses >>
    /\ UNCHANGED << clsVars, resVars, anVars >>

\* Lines 606-608, and lines 76-104 of main.
EndScan ==
    /\ mpc = "scan"
    /\ convo_index >= Len(unread_conversations)
    /\ referral_requests' = SelectSeq(unread_messages, LAMBDA msg : msg.is_potential_referral)
    /\ mpc' = IF unread_messages = << >> \/ referral_requests' = << >> THEN "done" ELSE "count"
    /\ UNCHANGED << unread_conversations, convo_index, unread_messages, resumes_found,
                    no_resume_listed, resume_files, analyses, steps >>
    /\ UNCHANGED << acqVars, clsVars, resVars, anVars >>

\* Lines 110-145 of main.
CountResumes ==
    /\ mpc = "count"
    /\ resumes_found' = Cardinality({ k \in DOMAIN referral_requests :
                                        referral_requests[k].has_resume_downloaded })
    /\ mpc' = "summary"
    /\ UNCHANGED << unread_conversations, convo_index, unread_messages, referral_requests,
                    no_resume_listed, resume_files, analyses, steps >>
    /\ UNCHANGED << acqVars, clsVars, resVars, anVars >>

\* The senders of the requests without a resume, in order.
RECURSIVE WithoutResume(_)
WithoutResume(requests) ==
    IF requests = << >> THEN << >>
    ELSE (IF Head(requests).has_resume_downloaded THEN << >> ELSE << Head(requests).sender >>)
         \o WithoutResume(Tail(requests))

\* Lines 180-185 of main: no resume was found at all.
ListNoResume ==
    /\ mpc = "summary"
    /\ resumes_found = 0
    /\ no_resume_listed' = WithoutResume(referral_requests)
    /\ mpc' = "done"
    /\ UNCHANGED << unread_conversations, convo_index, unread_messages, referral_requests,
                    resumes_found, resume_files, analyses, steps >>
    /\ UNCHANGED << acqVars, clsVars, resVars, anVars >>

\* json.dump and json.load of one request, read with the defaults of lines
\* 497-512.
RECURSIVE LoadedMessages(_)
LoadedMessages(messages) ==
    IF messages = << >> THEN << >>
    ELSE << [content |-> Get(Head(messages), "content", "")] >> \o LoadedMessages(Tail(messages))

Loaded(request) ==
    [sender |-> request.sender,
     actual_name |-> Get(request, "actual_name", NoName),
     messages |-> LoadedMessages(request.messages)]

\* os.path.basename of a path of the resumes folder.
Basename(path) == SubSeq(path, Len(RESUMES_DIR) + 2, Len(path))

\* Lines 151-167 of main and 470-517 of process_linkedin_messages: the
\* files of the resumes folder are listed, the requests saved are loaded.
LoadMessagesAndResumes ==
    /\ mpc = "summary"
    /\ resumes_found > 0
    /\ resume_files' = DOMAIN resumes
    /\ messages_data' = [k \in DOMAIN referral_requests |-> Loaded(referral_requests[k])]
    /\ message_content_by_sender' = ContentBySender(messages_data', Len(messages_data'))
    /\ mpc' = IF resume_files' = {} THEN "done" ELSE "files"
    /\ UNCHANGED << unread_conversations, convo_index, unread_messages, referral_requests,
                    resumes_found, no_resume_listed, analyses, steps >>
    /\ UNCHANGED << rpc, file_basename, file_sender_name, matched_key, message_content >>
    /\ UNCHANGED << acqVars, clsVars, anVars >>

\* Lines 540-654: one turn of the loop over the resume files.  A file whose
\* text cannot be read is passed over; the others give a row.
AnalyzeResumeFile ==
    /\ mpc = "files"
    /\ \E resume_file \in resume_files :
          LET m == MatchedKey(message_content_by_sender, SenderNameOfFile(Basename(resume_file)))
              content == IF m.key # NoKey
                         THEN Some(DictGet(message_content_by_sender, m.key))
                         ELSE None
          IN  /\ ~m.raised
              /\ resume_files' = resume_files \ {resume_file}
              /\ file_basename' = Basename(resume_file)
              /\ file_sender_name' = SenderNameOfFile(file_basename')
              /\ matched_key' = m.key
              /\ message_content' = content.s
              /\ \/ /\ analyses' = analyses
                    /\ steps' = Append(steps, Step(file_sender_name', "analyze", "unreadable"))
                 \/ \E r \in PipelineResponses :
                    /\ analyses' = Append(analyses,
                           analyze_resume_with_gpt(file_sender_name', content, r[1], r[2]))
                    /\ steps' = Append(steps, Step(file_sender_name', "analyze", "row"))
    /\ UNCHANGED << mpc, unread_conversations, convo_index, unread_messages,
                    referral_requests, resumes_found, no_resume_listed >>
    /\ UNCHANGED << rpc, messages_data, message_content_by_sender >>
    /\ UNCHANGED << acqVars, clsVars, anVars >>

\* Lines 656-668: every file has had its turn.
CreateReport ==
    /\ mpc = "files"
    /\ resume_files = {}
    /\ mpc' = "done"
    /\ UNCHANGED << unread_conversations, convo_index, unread_messages, referral_requests,
                    resumes_found, no_resume_listed, resume_files, analyses, steps >>
    /\ UNCHANGED << acqVars, clsVars, resVars, anVars >>

PipelineNext ==
    \/ OpenConversation
    \/ ConversationError
    \/ AnalyzeConversation
    \/ DownloadDriveLink
    \/ EndDriveLinks
    \/ ProcessItemBody
    \/ BeginAttachments
    \/ DownloadAttachment
    \/ SkipAttachment
    \/ EndAttachments
    \/ ReturnResult
    \/ CloseConversation
    \/ EndScan
    \/ CountResumes
    \/ ListNoResume
    \/ LoadMessagesAndResumes
    \/ AnalyzeResumeFile
    \/ CreateReport

PipelineInit == AcqIdle /\ ClsIdle /\ ResIdle /\ AnIdle /\ RunInit

PipelineSpec == PipelineInit /\ [][PipelineNext]_vars

(***************************************************************************)
(* Resume acquisition: the properties checked of Spec.                     *)
(***************************************************************************)

SuccessfulCalls == { k \in DOMAIN calls : calls[k].success }
DriveCalls == { k \in DOMAIN calls : calls[k].kind = "drive" }
AttachmentCalls == { k \in DOMAIN calls : calls[k].kind = "attachment" }

\* C1: once an attachment of a conversation that also has a drive link has
\* been downloaded successfully, no download call has been made, or is made,
\* for a drive link.
C1_DriveLinkNeverAttempted ==
    (drive_links # << >> /\ \E k \in AttachmentCalls : calls[k].success)
        => DriveCalls = {}

\* C2: when the acquisition of a conversation has finished, at most one
\* source has produced a resume file.
C2_AtMostOneResumeAcquired ==
    pc = "done" => Cardinality(SuccessfulCalls) <= 1

\* C3: no path of the resume store is opened for writing more than once, and
\* a download call that targets a file written before fails without writing.
C3_NoPathWrittenTwice ==
    /\ \A path \in DOMAIN resumes : resumes[path] <= 1
    /\ \A j, k \in DOMAIN calls :
          (j < k /\ calls[j].wrote /\ calls[j].filename = calls[k].filename)
              => (~calls[k].wrote /\ ~calls[k].success)

\* <identity_key>_resume.pdf for the first source, <identity_key>_resume_k.pdf
\* for the k-th.
OrdinalFilename(key, k) ==
    IF k = 1 THEN key \o "_resume.pdf" ELSE key \o "_resume_" \o Str(k) \o ".pdf"

\* C4: the sources of one conversation are given distinct file names, the
\* k-th source attempted being given the name with ordinal k.
C4_DistinctFilenames ==
    /\ \A j, k \in DOMAIN calls : j # k => calls[j].filename # calls[k].filename
    /\ \A k \in DOMAIN calls : calls[k].filename = OrdinalFilename(sender_name, k)

\* C5, as claimed: no attachment or drive-link URL of a conversation is
\* attempted twice, also when the URL occurs more than once in the messages.
C5_NoUrlAttemptedTwice ==
    \A j, k \in DOMAIN calls : j # k => calls[j].url # calls[k].url

\* C5, amended: the download collaborator is called at most once per source
\* occurrence (entry of drive_links, attachment element), so a failed download
\* is never retried; once the drive-link loop of a referral conversation is
\* over, each entry of drive_links has been attempted exactly once, a URL
\* that occurs n times in the messages n times.
C5_OncePerOccurrence ==
    /\ \A j, k \in DOMAIN calls :
          j # k => << calls[j].kind, calls[j].src >> # << calls[k].kind, calls[k].src >>
    /\ \A k \in DriveCalls :
          /\ calls[k].src[1] < Len(drive_links)
          /\ calls[k].url = drive_links[calls[k].src[1] + 1]
    /\ (pc \in {"items", "attachments", "done"} /\ is_potential_referral)
          => \A n \in DOMAIN drive_links :
                Cardinality({ k \in DriveCalls : calls[k].src = << n - 1, 0 >> }) = 1

\* C5's case: a drive URL that occurs twice was attempted for each occurrence,
\* the first attempt having failed.
C5_Witness ==
    /\ pc = "done"
    /\ \E j, k \in DriveCalls :
          j < k /\ calls[j].url = calls[k].url /\ ~calls[j].success

\* The failure reasons a returned dictionary holds: those of its
\* failure_reasons entry, none when it has no such entry.
FailureReasons(record) ==
    IF "failure_reasons" \in DOMAIN record THEN Range(record.failure_reasons) ELSE {}

\* C6: when no download of the conversation succeeded, the dictionary
\* returned says that no resume was downloaded and holds the failure reason
\* of every download attempted.
C6_NotFoundRetainsReasons ==
    (pc = "done" /\ SuccessfulCalls = {})
        => /\ result.has_resume_downloaded = FALSE
           /\ \A k \in DOMAIN calls : calls[k].error \in FailureReasons(result)

(***************************************************************************)
(* The classifier: the properties checked of ClassifierSpec.               *)
(***************************************************************************)

\* The text contains an entry of the keyword list, letter case ignored.
ContainsKeywordIgnoringCase(t) ==
    \E k \in DOMAIN referral_keywords : Contains(Lower(t), Lower(referral_keywords[k]))

\* C7: a text that contains an entry of the keyword list, in any letter
\* case, is classified a referral request; a text with no keyword and no
\* job-id pattern is not.
C7_KeywordsDecide ==
    cpc \in {"text", "done"}
        => /\ ContainsKeywordIgnoringCase(text) => text_is_referral
           /\ (~ContainsKeywordIgnoringCase(text) /\ ~JobIdPatternSearch(Lower(text)))
                 => ~text_is_referral

\* C8: a text that contains a text classified a referral request is
\* classified a referral request.
C8_Monotonic ==
    (cpc = "done" /\ text_is_referral) => wider_is_referral

\* C8's case: text was added before and after a referral request.
C8_Witness ==
    /\ cpc = "done"
    /\ text_is_referral
    /\ wider_is_referral
    /\ ~OccursAt(wider_text, text, 1)
    /\ ~EndsWith(wider_text, text)

(***************************************************************************)
(* The matching of a resume file: the properties checked of ResolverSpec.  *)
(***************************************************************************)

CandidateKeys == Range(DictKeys(message_content_by_sender))

\* The parts of a name: lower case, separators replaced by spaces, split.
NameParts(name) == Range(Split(CleanName(name)))

\* C9: when no candidate key is the file's sender name but one is equal to it
\* ignoring case, the file is matched to a candidate equal to the sender name
\* ignoring case.
C9_CaseInsensitiveExactFirst ==
    ( /\ rpc = "matched"
      /\ file_sender_name \notin CandidateKeys
      /\ \E key \in CandidateKeys : Lower(key) = Lower(file_sender_name) )
        => (matched_key # NoKey /\ Lower(matched_key) = Lower(file_sender_name))

\* C10, as claimed: the sender name j_smith is not matched to the single
\* candidate John_Smith.
C10_JSmithUnresolved ==
    ( /\ rpc = "matched"
      /\ file_sender_name = "j_smith"
      /\ DictKeys(message_content_by_sender) = << "John_Smith" >> )
        => matched_key = NoKey

\* C10, amended: the sender name j_smith is matched to the single candidate
\* John_Smith, with which it shares the part smith; a sender name that is not
\* the single candidate's key and shares no part with it is left unmatched.
C10_MatchedByCommonPart ==
    /\ ( /\ rpc = "matched"
         /\ file_sender_name = "j_smith"
         /\ DictKeys(message_content_by_sender) = << "John_Smith" >> )
           => /\ matched_key = "John_Smith"
              /\ message_content = DictGet(message_content_by_sender, "John_Smith")
    /\ ( /\ rpc = "matched"
         /\ Len(message_content_by_sender) = 1
         /\ file_sender_name \notin CandidateKeys
         /\ \A key \in CandidateKeys : NameParts(key) \cap NameParts(file_sender_name) = {} )
           => (matched_key = NoKey /\ message_content = NoContent)

\* C10's case: j_smith has been matched against the single candidate
\* John_Smith.
C10_Witness ==
    /\ rpc = "matched"
    /\ file_sender_name = "j_smith"
    /\ DictKeys(message_content_by_sender) = << "John_Smith" >>
    /\ matched_key = "John_Smith"

\* C20: once an attachment of the conversation has been downloaded with
\* success, no further attachment of the conversation is downloaded, whether
\* it belongs to the same message or to a later one.
C20_StopsAtFirstSuccess ==
    \A j \in DOMAIN calls : \A k \in DOMAIN calls :
        ( /\ j < k
          /\ calls[j].kind = "attachment"
          /\ calls[j].success )
            => calls[k].kind # "attachment"

(***************************************************************************)
(* The extraction rows: the properties checked of AnalyzerSpec.            *)
(***************************************************************************)

\* A value that is null or the empty string.
Empty(value) == value = JNull \/ value = JStr("")

\* The key is in the dictionary with a value that is neither null nor empty.
Supplied(data, key) == key \in DOMAIN data /\ ~Empty(data[key])

\* One of the strings the except clauses of analyze_resume_with_gpt put in
\* place of a value.
IsErrorPlaceholder(value) ==
    /\ value.type = "string"
    /\ value.s # NOT_FOUND
    /\ value.s = PARSE_ERROR \/ OccursAt(value.s, "Error: ", 1)

\* Both calls were made and returned, so that the resume response is parsed.
ResumeResponseParsed(kind) ==
    /\ apc \in {"analyzed", "renormalized"}
    /\ ~arg_message_content.none
    /\ job_id_response.kind # "raise"
    /\ resume_response.kind = kind

\* C12: every row analyze_resume_with_gpt returns, on every return path, has
\* the five keys name, email, phone, years_of_experience and job_id, each
\* with a value that is not empty.
C12_AllFieldsPopulated ==
    apc \in {"analyzed", "renormalized"}
        => /\ DOMAIN analysis = Range(required_fields)
           /\ \A field \in DOMAIN analysis : ~Empty(analysis[field])

\* C13: when the resume response parses, each of the five fields that the
\* service left out, or gave as null or empty, is "Not found" in the row,
\* and each field the service gave a non-empty value is in the row unchanged.
C13_AbsentNotFoundSuppliedKept ==
    ResumeResponseParsed("object")
        => /\ \A field \in {"name", "email", "phone", "years_of_experience"} :
                  analysis[field] = IF Supplied(resume_response.data, field)
                                    THEN resume_response.data[field]
                                    ELSE JStr(NOT_FOUND)
           /\ job_id_response.kind = "object"
                  => analysis["job_id"] = IF Supplied(job_id_response.data, "job_id")
                                          THEN job_id_response.data["job_id"]
                                          ELSE JStr(NOT_FOUND)

\* C14: the loop over the required fields leaves a row unchanged that has
\* all five fields with non-empty values; so it does the row it made itself.
C14_Idempotent ==
    /\ ( /\ apc = "renormalized"
         /\ DOMAIN analysis = Range(required_fields)
         /\ \A field \in DOMAIN analysis : ~Falsy(analysis[field]) )
           => renormalized = analysis
    /\ ( /\ apc = "renormalized"
         /\ ResumeResponseParsed("object") )
           => renormalized = analysis

\* C14's case: a row in which the loop put "Not found" for an empty email
\* has been put through the loop again.
C14_Witness ==
    /\ apc = "renormalized"
    /\ ResumeResponseParsed("object")
    /\ Get(resume_response.data, "email", JNull) = JStr("")
    /\ analysis["email"] = JStr(NOT_FOUND)
    /\ renormalized["email"] = JStr(NOT_FOUND)

\* C15: when the resume response is no JSON, every field of the row is an
\* error placeholder, which is not "Not found".
C15_ParseFailureAllErrorPlaceholders ==
    ResumeResponseParsed("invalid")
        => \A field \in DOMAIN analysis : IsErrorPlaceholder(analysis[field])

\* C15, amended: when both calls returned and the resume response is no
\* JSON, email, phone and years_of_experience are the placeholder "Error
\* parsing API response"; name is the sender name; job_id is the job id
\* found for the message, or the same placeholder when that is "Not found",
\* and so never "Not found".
C15_ParseFailureRow ==
    ResumeResponseParsed("invalid")
        => /\ \A field \in {"email", "phone", "years_of_experience"} :
                  analysis[field] = JStr(PARSE_ERROR)
           /\ analysis["name"] = JStr(arg_sender_name)
           /\ analysis["job_id"] # JStr(NOT_FOUND)
           /\ ( /\ job_id_response.kind = "object"
                /\ "job_id" \in DOMAIN job_id_response.data
                /\ job_id_response.data["job_id"] # JStr(NOT_FOUND) )
                  => analysis["job_id"] = job_id_response.data["job_id"]
           /\ ( /\ job_id_response.kind = "object"
                /\ "job_id" \notin DOMAIN job_id_response.data )
                  => analysis["job_id"] = JStr(PARSE_ERROR)

\* C15's case: a resume response that is no JSON, for a message in which
\* the service found no job id, has given its row.
C15_Witness ==
    /\ ResumeResponseParsed("invalid")
    /\ apc = "analyzed"
    /\ job_id_response = ApiObject(EmptyDict)
    /\ analysis["job_id"] = JStr(PARSE_ERROR)
    /\ analysis["email"] = JStr(PARSE_ERROR)

\* C16: the years_of_experience of every row is a number that is a multiple
\* of 0.25 or a placeholder string.
C16_QuarterOrPlaceholder ==
    apc \in {"analyzed", "renormalized"}
        => LET y == analysis["years_of_experience"]
           IN  \/ y.type = "number" /\ y.n % 25 = 0
               \/ y = JStr(NOT_FOUND)
               \/ IsErrorPlaceholder(y)

\* C11: when no conversation is matched to a resume file, so that the file
\* is analysed without message content, the job_id of its row is "Not
\* found", whatever the resume call ends in.
C11_UnresolvedJobIdNotFound ==
    ( /\ apc \in {"analyzed", "renormalized"}
      /\ arg_message_content.none )
        => analysis["job_id"] = JStr(NOT_FOUND)

(***************************************************************************)
(* The run: the properties checked of PipelineSpec.                        *)
(***************************************************************************)

\* The steps of one stage, and the steps that ended in one way.
StepsOfStage(stage) == { k \in DOMAIN steps : steps[k].stage = stage }
StepsWithOutcome(outcome) == { k \in DOMAIN steps : steps[k].outcome = outcome }

\* The name under which the files and the messages of a sender go.
RecordOf(sender) == Replace(sender, " ", "_")

\* C17: a record that fails (a conversation that does not open, a download
\* that fails, a file that cannot be read, a response that cannot be parsed,
\* a call that raises) does not end the batch: every conversation of the
\* list has its turn, in order, and so has every file of the resumes folder,
\* and every file that can be read gives a row.
C17_FailureIsolated ==
    /\ mpc = "scan" => Cardinality(StepsOfStage("scan")) = convo_index
    /\ mpc \in {"count", "summary", "files", "done"}
           => Cardinality(StepsOfStage("scan")) = Len(unread_conversations)
    /\ \A k \in StepsOfStage("scan") :
           k <= Len(unread_conversations) /\ steps[k].record = RecordOf(ConversationNames[k])
    /\ (mpc = "done" /\ resumes_found > 0)
           => \A path \in DOMAIN resumes :
                  \E k \in StepsOfStage("analyze") :
                      steps[k].record = SenderNameOfFile(Basename(path))
    /\ Len(analyses) = Cardinality(StepsWithOutcome("row"))

\* C17's case: the first conversation did not open, the second one gave a
\* resume, whose analysis ran into an exception of the service and still
\* gave a row.
C17_Witness ==
    /\ mpc = "done"
    /\ Len(steps) = 3
    /\ steps[1].outcome = "error"
    /\ steps[2].outcome = "resume"
    /\ steps[3].outcome = "row"
    /\ analyses[1]["email"] = JStr("Error: Connection error.")

\* C18: a request whose resume could not be acquired gives no row of the
\* report and is listed among the senders without a resume at the end of the
\* run, also when other requests of the run did give a resume.
C18_NoResumeListedNoRow ==
    mpc = "done"
        => \A k \in DOMAIN referral_requests :
               ~referral_requests[k].has_resume_downloaded
                   => /\ referral_requests[k].sender \in Range(no_resume_listed)
                      /\ \A j \in StepsWithOutcome("row") :
                             steps[j].record # RecordOf(referral_requests[k].sender)

\* C19: the records are handled one at a time through all stages: once a
\* later record has had a stage, no earlier record has one.
C19_OneRecordAtATime ==
    \A a \in DOMAIN steps : \A b \in DOMAIN steps : \A c \in DOMAIN steps :
        (a < b /\ b < c /\ steps[a].record = steps[c].record)
            => steps[b].record = steps[a].record

\* C19, amended: the records are handled one at a time within each of the
\* two passes: every conversation is classified and its resume acquired, in
\* the order of the list, before the first resume file is analysed; then the
\* files are analysed one after the other, each once.
C19_OnePassAtATime ==
    /\ \A a \in DOMAIN steps : \A b \in DOMAIN steps :
           (a < b /\ steps[a].stage = "analyze") => steps[b].stage = "analyze"
    /\ StepsOfStage("analyze") # {}
           => Cardinality(StepsOfStage("scan")) = Len(unread_conversations)
    /\ \A k \in StepsOfStage("scan") : steps[k].record = RecordOf(ConversationNames[k])
    /\ mpc = "conversation"
           => /\ Cardinality(StepsOfStage("scan")) = convo_index
              /\ StepsOfStage("analyze") = {}
    /\ \A a \in StepsOfStage("analyze") : \A b \in StepsOfStage("analyze") :
           steps[a].record = steps[b].record => a = b

\* C19's case: two conversations gave a resume each, and both files have
\* been analysed after both conversations.
C19_Witness ==
    /\ mpc = "done"
    /\ Len(steps) = 4
    /\ steps[1].outcome = "resume"
    /\ steps[2].outcome = "resume"
    /\ steps[3].stage = "analyze"
    /\ steps[4].stage = "analyze"
    /\ steps[3].record # steps[4].record

(***************************************************************************)
(* The drive links of a conversation: checked of Spec.                     *)
(***************************************************************************)

\* C21: the drive links are attempted in the order met, one download call
\* per link, and the first success ends the iteration: a link is attempted
\* only if every link before it failed.
C21_LaterLinkOnlyAfterFailures ==
    /\ \A j \in DriveCalls : \A k \in DriveCalls :
           j < k => ~ calls[j].success
    /\ \A k \in DriveCalls :
           calls[k].url = drive_links[Cardinality({ j \in DriveCalls : j <= k })]

(***************************************************************************)
(* The containment and the name-parts tiers: checked of ResolverSpec.      *)
(***************************************************************************)

CandidateKeySeq == DictKeys(message_content_by_sender)

\* The tokens of a name, in order: lower case, separators replaced by
\* spaces, split.
TokenSeq(name) == Split(CleanName(name))

\* The candidate's cleaned key contains the cleaned query or is contained
\* in it.
Qualifies(key) ==
    \/ Contains(CleanName(key), CleanName(file_sender_name))
    \/ Contains(CleanName(file_sender_name), CleanName(key))

CommonTokens(key) == Cardinality(NameParts(key) \cap NameParts(file_sender_name))

Larger(a, b) == IF a > b THEN a ELSE b

\* max(|query tokens|, |candidate tokens|), the tokens counted over the
\* sequences and over the sets of distinct tokens.
SequenceSize(key) == Larger(Len(TokenSeq(file_sender_name)), Len(TokenSeq(key)))
DistinctSize(key) ==
    Larger(Cardinality(NameParts(file_sender_name)), Cardinality(NameParts(key)))

\* The n-th candidate qualifies, has a positive score CommonTokens/Size, no
\* qualifying candidate has a higher score and none before it has the same.
FirstOfBestScore(n, Size(_)) ==
    LET keys == CandidateKeySeq
    IN  /\ Qualifies(keys[n])
        /\ CommonTokens(keys[n]) > 0
        /\ \A m \in DOMAIN keys :
               Qualifies(keys[m])
                 => CommonTokens(keys[m]) * Size(keys[n]) <= CommonTokens(keys[n]) * Size(keys[m])
        /\ \A m \in 1..(n - 1) :
               Qualifies(keys[m])
                 => CommonTokens(keys[m]) * Size(keys[n]) < CommonTokens(keys[n]) * Size(keys[m])

\* C22, as claimed: when the query is no key of the mapping, the file is
\* matched to the first of the qualifying candidates that maximise
\* |common tokens| / max(|query tokens|, |candidate tokens|), the tokens
\* counted over the token sequences.
C22_BestBySequenceScore ==
    \A n \in DOMAIN CandidateKeySeq :
        ( /\ rpc = "matched"
          /\ file_sender_name \notin CandidateKeys
          /\ FirstOfBestScore(n, SequenceSize) )
            => matched_key = CandidateKeySeq[n]

\* C22, amended: the same with the tokens counted over the sets of distinct
\* tokens, a repeated token counting once.
C22_BestByDistinctScore ==
    \A n \in DOMAIN CandidateKeySeq :
        ( /\ rpc = "matched"
          /\ file_sender_name \notin CandidateKeys
          /\ FirstOfBestScore(n, DistinctSize) )
            => /\ matched_key = CandidateKeySeq[n]
               /\ message_content = DictGet(message_content_by_sender, CandidateKeySeq[n])

\* C22's case: john_smith has been matched against John_Smith_Jr and
\* John_Smith_John, in this order; the second has the repeated token.
C22_Witness ==
    /\ rpc = "matched"
    /\ file_sender_name = "john_smith"
    /\ CandidateKeySeq = << "John_Smith_Jr", "John_Smith_John" >>
    /\ matched_key = "John_Smith_John"


\* The number of the query's tokens that are tokens of the candidate, a
\* token repeated in the query counting at each of its occurrences.
QueryTokensIn(key) ==
    LET query == TokenSeq(file_sender_name)
    IN  Cardinality({ k \in DOMAIN query : query[k] \in NameParts(key) })

\* Neither an exact nor a containment match: the query is no key of the
\* mapping and no qualifying candidate has a positive score.
NoExactOrContainmentMatch ==
    /\ file_sender_name \notin CandidateKeys
    /\ \A n \in DOMAIN CandidateKeySeq :
           ~ (Qualifies(CandidateKeySeq[n]) /\ CommonTokens(CandidateKeySeq[n]) > 0)

JobIdResponseUnparsed ==
    /\ apc = "analyzed"
    /\ ~ arg_message_content.none
    /\ resume_response.kind # "raise"
    /\ job_id_response.kind \in {"invalid", "array"}

\* What the first "Job ID:"/"JobId:" mention of each message text of the
\* model names, commas turned into semicolons; "" when there is no mention.
FirstMentionedJobIds ==
    "Job ID: A1, B2\n" :> "A1; B2" @@ "please refer me\n" :> ""
        @@ "Job ID: A1\nJobId: B2\n" :> "A1"

\* C24, as claimed: when the job-id response cannot be parsed and the message
\* text mentions no job id, the row's job_id is "Not found", whether the
\* resume response parsed or not.
C24_NoMentionNotFound ==
    ( /\ JobIdResponseUnparsed
      /\ resume_response.kind \in {"object", "invalid"}
      /\ FirstMentionedJobIds[arg_message_content.s] = "" )
        => analysis["job_id"] = JStr(NOT_FOUND)

\* C24, amended: when the job-id response cannot be parsed the job id is the
\* one mentioned in the message text; when none is mentioned it is
\* "Not found" if the resume response parsed to an object and
\* "Error parsing API response" if the resume response is no JSON.
C24_FallbackChain ==
    ( /\ JobIdResponseUnparsed
      /\ resume_response.kind \in {"object", "invalid"} )
        => LET mentioned == FirstMentionedJobIds[arg_message_content.s]
           IN  analysis["job_id"] =
                   IF mentioned # "" THEN JStr(mentioned)
                   ELSE IF resume_response.kind = "object" THEN JStr(NOT_FOUND)
                   ELSE JStr(PARSE_ERROR)

\* C24's case: neither the job-id response nor the regex gave a job id, the
\* resume response parsed, and the row says "Not found".
C24_Witness ==
    /\ JobIdResponseUnparsed
    /\ job_id_response.kind = "invalid"
    /\ resume_response.kind = "object"
    /\ arg_message_content = Some("please refer me\n")
    /\ analysis["job_id"] = JStr(NOT_FOUND)

\* C25: when the job-id response cannot be parsed and the message text
\* mentions the job ids A1 and B2 in two places, the row's job_id holds both,
\* A1 before B2, joined with a semicolon.
C25_EveryMentionJoined ==
    ( /\ JobIdResponseUnparsed
      /\ resume_response.kind = "object"
      /\ arg_message_content = Some("Job ID: A1\nJobId: B2\n") )
        => analysis["job_id"] \in {JStr("A1;B2"), JStr("A1; B2")}

(***************************************************************************)
(* The shapes of a response: checked of ResponseSpec.                      *)
(***************************************************************************)

\* C26: a response that holds exactly one JSON document, bare, between code
\* fences, after prose or before prose, is parsed, to the same fields in
\* every shape.
C26_EveryShapeParsed ==
    apc # "respond"
      => \A d \in JsonDocuments :
             /\ resume_content \in Shapes(d.text) => resume_response = ApiObject(d.data)
             /\ job_id_content \in Shapes(d.text) => job_id_response = ApiObject(d.data)

(***************************************************************************)
(* A call of the service that raises: checked of AnalyzerSpec.             *)
(***************************************************************************)

\* C27: when a call of the service raises, the row returned is the row the
\* function returns when the response of that call cannot be parsed: for the
\* resume call the three resume fields hold the parse-error placeholder under
\* the sender's name, for the job-id call the resume fields are kept and the
\* job id comes from the regex backup.
C27_RaiseLikeParseFailure ==
    (apc = "analyzed" /\ ~ arg_message_content.none)
      => /\ resume_response.kind = "raise"
              => /\ analysis["name"] = JStr(arg_sender_name)
                 /\ \A field \in {"email", "phone", "years_of_experience"} :
                        analysis[field] = JStr(PARSE_ERROR)
         /\ (resume_response.kind # "raise" /\ job_id_response.kind = "raise")
              => analysis = analyze_resume_with_gpt(arg_sender_name, arg_message_content,
                                                    resume_response, ApiInvalid)

(***************************************************************************)
(* The record of a conversation: checked of Spec.                          *)
(***************************************************************************)

\* Lines 580-588 of get_linkedin_messages (and 128-136 of main): the source
\* printed for the resume of a referral request, "none" when no line about
\* the source is printed.
ReportedSource(message_data) ==
    IF ~ message_data.is_potential_referral \/ ~ message_data.has_resume_downloaded
    THEN "none"
    ELSE IF "google_drive_links" \in DOMAIN message_data
            /\ message_data["google_drive_links"] # << >>
    THEN "drive"
    ELSE "attachment"

\* C28: the source reported for a conversation with a resume is the drive
\* link only if a download from a drive link succeeded and the attachment
\* only if a download of an attachment succeeded; a conversation with drive
\* links whose resume came from an attachment is reported as attachment.
C28_ReportedSourceIsActualSource ==
    (pc = "done" /\ result.has_resume_downloaded)
      => /\ ReportedSource(result) = "drive" => DriveCalls \cap SuccessfulCalls # {}
         /\ ReportedSource(result) = "attachment"
                => AttachmentCalls \cap SuccessfulCalls # {}
         /\ (drive_links # << >> /\ DriveCalls \cap SuccessfulCalls = {})
                => ReportedSource(result) = "attachment"


\* C29: the record returned says has_resume_downloaded exactly when a
\* download call made for the conversation, drive link or attachment,
\* reported success; for a conversation that is no referral request no
\* download call is made and the record says no resume.
C29_FlagIffSomeDownloadSucceeded ==
    pc = "done"
      => /\ result.has_resume_downloaded <=> SuccessfulCalls # {}
         /\ ~ result.is_potential_referral
                => (calls = << >> /\ ~ result.has_resume_downloaded)

\* C29's case: a record returned after a drive download that failed and an
\* attachment download that succeeded; it says a resume was downloaded.
C29_Witness ==
    /\ pc = "done"
    /\ result.has_resume_downloaded
    /\ \E k \in DriveCalls : ~ calls[k].success
    /\ AttachmentCalls \cap SuccessfulCalls # {}

(***************************************************************************)
(* One conversation from the page to the matching of its resume files:     *)
(* extract_message_content, then process_linkedin_messages on the record    *)
(* it returned and a file it wrote.                                        *)
(***************************************************************************)

\* The display names of the conversation.
NamingDisplayNames == {"John Smith", "Pat resume writer"}

\* The pages of the conversation: those of the run, and a request signed
\* with a name.
NamingPages ==
    PipelinePages
    \cup { ItemsOf(st, Len(st)) :
             st \in { << [kind |-> "text", text |-> "please refer me Regards, Jane Doe"],
                         [kind |-> "text", text |-> DriveUrlA],
                         [kind |-> "attachment", text |-> "My CV.docx"] >> } }

AcqNamingInit ==
    /\ message_items \in NamingPages
    /\ display_name \in NamingDisplayNames
    /\ pc = "analyze"
    /\ all_message_content = ""
    /\ drive_links = << >>
    /\ actual_name = NoName
    /\ sender_name = ""
    /\ is_potential_referral = FALSE
    /\ resume_downloaded = FALSE
    /\ attachments_processed = FALSE
    /\ i = 0
    /\ item_index = 0
    /\ att_index = 0
    /\ message_attachments = << >>
    /\ downloaded_attachments = << >>
    /\ full_messages = << >>
    /\ result = NoResult
    /\ resumes = [x \in {} |-> 0]
    /\ calls = << >>

\* Lines 85-101 of main and 487-619 of process_linkedin_messages: the record
\* of a referral request is saved and loaded, the mapping is built of it, and
\* a file the conversation wrote is matched.
MatchWrittenFile ==
    /\ pc = "done"
    /\ rpc = "idle"
    /\ result.is_potential_referral
    /\ \E path \in DOMAIN resumes :
          LET data == << Loaded(result) >>
              d == ContentBySender(data, 1)
              m == MatchedKey(d, SenderNameOfFile(Basename(path)))
          IN  /\ ~ m.raised
              /\ messages_data' = data
              /\ message_content_by_sender' = d
              /\ file_basename' = Basename(path)
              /\ file_sender_name' = SenderNameOfFile(Basename(path))
              /\ matched_key' = m.key
              /\ message_content' = IF m.key # NoKey THEN DictGet(d, m.key) ELSE NoContent
    /\ rpc' = "matched"
    /\ UNCHANGED << acqVars, clsVars, anVars, runVars >>

NamingNext ==
    \/ AnalyzeConversation
    \/ DownloadDriveLink
    \/ EndDriveLinks
    \/ ProcessItemBody
    \/ BeginAttachments
    \/ DownloadAttachment
    \/ SkipAttachment
    \/ EndAttachments
    \/ ReturnResult
    \/ MatchWrittenFile

NamingInit == AcqNamingInit /\ ClsIdle /\ ResIdle /\ AnIdle /\ RunIdle

NamingSpec == NamingInit /\ [][NamingNext]_vars

(***************************************************************************)
(* The name of a resume file and the key of its conversation: checked of   *)
(* NamingSpec.                                                             *)
(***************************************************************************)

\* C30: for a resume file written for a conversation with message text, the
\* sender name derived from the file name is the key built for the
\* conversation (actual_name if present, else sender, spaces replaced by
\* underscores), and the file is given the conversation's message text by
\* the direct match.
C30_FileNameGivesBackKey ==
    (rpc = "matched" /\ FullContent(messages_data[1].messages) # "")
      => /\ file_sender_name = SenderKey(messages_data[1])
         /\ matched_key = SenderKey(messages_data[1])
         /\ message_content = FullContent(messages_data[1].messages)

=============================================================================
